---------------------------- MODULE Spec2Model ----------------------------
(***************************************************************************)
(* The cultural-cuisine rules engine of NutriCartAI                        *)
(* (src/ai-services/cultural-cuisine-service.ts): ingredient substitution, *)
(* authenticity scoring, and the pairing and etiquette lookups.            *)
(*                                                                         *)
(* Strings are TLA+ strings; toLowerCase and includes are computed         *)
(* character by character.  A JavaScript object literal is a function from *)
(* its own keys to values, read through JsGet, which also models the       *)
(* properties every object literal inherits from Object.prototype.         *)
(***************************************************************************)
EXTENDS Integers, Sequences, FiniteSets, TLC

VARIABLES
    \* one call of the rules engine: the operation, its arguments, and its outcome
    op, recipe, pantryItems, userRegion, usedSubstitutions, region, pc, result,
    \* the first outcome of every call made so far, by its arguments, as an
    \* observer records it
    seen,
    \* the arrays the calls of several callers have returned, by address, and
    \* each caller's call, position and the addresses it holds
    heap, callers,
    \* UserPreferencesProvider: the preferences state, the queued state
    \* updates, the effects that are due, localStorage's 'userPreferences',
    \* the root element's theme classes and --accent-color, the system colour
    \* scheme, and whether handleChange is registered
    preferences, queue, effects, storage, rootClass, accentApplied, systemDark,
    listening

callVars == <<op, recipe, pantryItems, userRegion, usedSubstitutions, region, pc, result>>

\* what a call of the rules engine neither reads nor writes
observerVars == <<seen>>

sharedVars == <<heap, callers>>

providerVars == <<preferences, queue, effects, storage, rootClass, accentApplied,
                  systemDark, listening>>

otherVars == <<observerVars, sharedVars, providerVars>>

vars == <<callVars, otherVars>>

----------------------------------------------------------------------------
(* Bounds of the model                                                      *)

\* longest list of authentic ingredients of a recipe
MaxRecipe == 2
\* longest pantry
MaxPantry == 2
\* longest list of substitutions handed to the scorer
MaxSubs == 6
\* most calls several callers make in all
MaxCalls == 3
\* most state updates queued before React renders
MaxQueue == 2

----------------------------------------------------------------------------
(* JavaScript strings                                                       *)

\* the upper-case letters String.prototype.toLowerCase changes (ASCII)
lowerOf ==
    [c \in {"A","B","C","D","E","F","G","H","I","J","K","L","M",
            "N","O","P","Q","R","S","T","U","V","W","X","Y","Z"} |->
      CASE c = "A" -> "a" [] c = "B" -> "b" [] c = "C" -> "c" [] c = "D" -> "d"
        [] c = "E" -> "e" [] c = "F" -> "f" [] c = "G" -> "g" [] c = "H" -> "h"
        [] c = "I" -> "i" [] c = "J" -> "j" [] c = "K" -> "k" [] c = "L" -> "l"
        [] c = "M" -> "m" [] c = "N" -> "n" [] c = "O" -> "o" [] c = "P" -> "p"
        [] c = "Q" -> "q" [] c = "R" -> "r" [] c = "S" -> "s" [] c = "T" -> "t"
        [] c = "U" -> "u" [] c = "V" -> "v" [] c = "W" -> "w" [] c = "X" -> "x"
        [] c = "Y" -> "y" [] c = "Z" -> "z"]

RECURSIVE lowerFrom(_, _)
lowerFrom(s, i) ==
    IF i > Len(s) THEN ""
    ELSE LET c == SubSeq(s, i, i)
         IN  (IF c \in DOMAIN lowerOf THEN lowerOf[c] ELSE c) \o lowerFrom(s, i + 1)

\* s.toLowerCase()
toLowerCase(s) == lowerFrom(s, 1)

\* s.includes(t): t occurs in s as a contiguous substring
includes(s, t) ==
    \E i \in 1..(Len(s) - Len(t) + 1) : SubSeq(s, i, i + Len(t) - 1) = t

----------------------------------------------------------------------------
(* JavaScript object literals                                               *)

\* the properties an object literal inherits from Object.prototype
ObjectPrototypeKeys ==
    {"constructor", "__proto__", "hasOwnProperty", "isPrototypeOf",
     "propertyIsEnumerable", "toLocaleString", "toString", "valueOf",
     "__defineGetter__", "__defineSetter__", "__lookupGetter__", "__lookupSetter__"}

\* obj[key] on an object literal: an own property, else an inherited one (a
\* function, or Object.prototype itself: truthy, with none of the fields the
\* tables' entries have), else undefined
JsGet(obj, key) ==
    IF key \in DOMAIN obj THEN [kind |-> "own", value |-> obj[key]]
    ELSE IF key \in ObjectPrototypeKeys THEN [kind |-> "inherited", value |-> <<>>]
    ELSE [kind |-> "undefined", value |-> <<>>]

----------------------------------------------------------------------------
(* The static tables                                                        *)

getSubstitutionRules ==
    ("kaffir lime leaves" :> [
        substitutes |-> <<"lime zest", "bay leaves with lime zest">>,
        notes |-> "Use lime zest for citrus notes, bay leaf adds aromatic element",
        flavorImpact |-> "moderate" ])
 @@ ("fish sauce" :> [
        substitutes |-> <<"soy sauce with salt", "worcestershire sauce">>,
        notes |-> "Add a pinch of salt and a drop of vinegar to better mimic umami flavor",
        flavorImpact |-> "significant" ])
 @@ ("gochujang" :> [
        substitutes |-> <<"sriracha with miso paste", "red pepper flakes with honey">>,
        notes |-> "Mix 2 parts sriracha with 1 part miso for similar fermented spicy flavor",
        flavorImpact |-> "moderate" ])
 @@ ("lemongrass" :> [
        substitutes |-> <<"lemon zest with ginger", "lemon verbena">>,
        notes |-> "Combine 1 tablespoon lemon zest with 1/4 teaspoon ginger powder",
        flavorImpact |-> "moderate" ])
 @@ ("tahini" :> [
        substitutes |-> <<"smooth peanut butter", "sunflower seed butter">>,
        notes |-> "Thin with sesame oil if available for closer flavor profile",
        flavorImpact |-> "minimal" ])
 @@ ("ghee" :> [
        substitutes |-> <<"clarified butter", "butter", "coconut oil">>,
        notes |-> "Unsalted butter is your best alternative, coconut oil changes flavor profile",
        flavorImpact |-> "minimal" ])
 @@ ("sumac" :> [
        substitutes |-> <<"lemon zest", "amchoor powder", "tamarind">>,
        notes |-> "Add a touch of salt to lemon zest for similar tanginess",
        flavorImpact |-> "moderate" ])
 @@ ("oyster sauce" :> [
        substitutes |-> <<"hoisin sauce", "soy sauce with sugar">>,
        notes |-> "Mix 1 tablespoon soy sauce with 1/2 teaspoon sugar and 1/2 teaspoon Worcestershire sauce",
        flavorImpact |-> "moderate" ])
 @@ ("galangal" :> [
        substitutes |-> <<"ginger", "ginger with lemon zest">>,
        notes |-> "True galangal has a sharper, citrusy flavor than ginger",
        flavorImpact |-> "moderate" ])
 @@ ("tamarind paste" :> [
        substitutes |-> <<"lime juice with brown sugar", "pomegranate molasses", "vinegar with dates">>,
        notes |-> "Mix 1 part lime juice with 1 part brown sugar for similar sweet-sour profile",
        flavorImpact |-> "moderate" ])
 @@ ("shiso leaves" :> [
        substitutes |-> <<"mint with basil", "thai basil">>,
        notes |-> "Equal parts mint and basil can approximate the complex flavor",
        flavorImpact |-> "moderate" ])
 @@ ("miso paste" :> [
        substitutes |-> <<"tahini with soy sauce", "vegetable bouillon">>,
        notes |-> "Lacks fermented quality but provides umami base",
        flavorImpact |-> "significant" ])
 @@ ("za'atar" :> [
        substitutes |-> <<"thyme with sesame seeds and sumac", "thyme with lemon zest">>,
        notes |-> "Mix 1 tbsp thyme, 1 tsp sesame seeds, pinch of salt and lemon zest",
        flavorImpact |-> "moderate" ])
 @@ ("plantains" :> [
        substitutes |-> <<"green bananas", "potatoes for savory dishes">>,
        notes |-> "Texture will differ; use less cooking time",
        flavorImpact |-> "significant" ])
 @@ ("paneer" :> [
        substitutes |-> <<"firm tofu", "halloumi", "queso fresco">>,
        notes |-> "Drain tofu well and press before using",
        flavorImpact |-> "moderate" ])

pairings ==
    ("east_asia" :> [
        mainDishes |-> <<"Steamed Fish", "Stir-fried Vegetables", "Clay Pot Rice">>,
        sideDishes |-> <<"Pickled Vegetables", "Cold Salad", "Steamed Eggs">>,
        desserts |-> <<"Red Bean Soup", "Mango Pudding", "Egg Tarts">>,
        beverages |-> <<"Jasmine Tea", "Oolong Tea", "Rice Wine">> ])
 @@ ("southeast_asia" :> [
        mainDishes |-> <<"Green Curry", "Pad Thai", "Beef Rendang">>,
        sideDishes |-> <<"Som Tam", "Sticky Rice", "Roti Canai">>,
        desserts |-> <<"Mango Sticky Rice", "Thai Tea Ice Cream", "Kuih">>,
        beverages |-> <<"Thai Iced Tea", "Coconut Water", "Sugarcane Juice">> ])
 @@ ("south_asia" :> [
        mainDishes |-> <<"Butter Chicken", "Biryani", "Dal Makhani">>,
        sideDishes |-> <<"Naan", "Raita", "Chutney">>,
        desserts |-> <<"Gulab Jamun", "Kheer", "Jalebi">>,
        beverages |-> <<"Lassi", "Masala Chai", "Rooh Afza">> ])
 @@ ("middle_east" :> [
        mainDishes |-> <<"Lamb Shawarma", "Falafel", "Kebabs">>,
        sideDishes |-> <<"Hummus", "Tabbouleh", "Baba Ganoush">>,
        desserts |-> <<"Baklava", "Kunafa", "Turkish Delight">>,
        beverages |-> <<"Mint Tea", "Turkish Coffee", "Ayran">> ])
 @@ ("mediterranean" :> [
        mainDishes |-> <<"Paella", "Moussaka", "Risotto">>,
        sideDishes |-> <<"Greek Salad", "Bruschetta", "Dolmas">>,
        desserts |-> <<"Tiramisu", "Baklava", "Panna Cotta">>,
        beverages |-> <<"Wine", "Limoncello", "Ouzo">> ])
 @@ ("latin_america" :> [
        mainDishes |-> <<"Tacos", "Mole Poblano", "Feijoada">>,
        sideDishes |-> <<"Guacamole", "Elote", "Black Beans">>,
        desserts |-> <<"Tres Leches Cake", "Churros", "Flan">>,
        beverages |-> <<"Horchata", "Margarita", "Agua Fresca">> ])
 @@ ("caribbean" :> [
        mainDishes |-> <<"Jerk Chicken", "Curry Goat", "Ackee and Saltfish">>,
        sideDishes |-> <<"Rice and Peas", "Festival", "Plantains">>,
        desserts |-> <<"Rum Cake", "Sweet Potato Pudding", "Coconut Drops">>,
        beverages |-> <<"Rum Punch", "Sorrel Drink", "Ginger Beer">> ])
 @@ ("west_africa" :> [
        mainDishes |-> <<"Jollof Rice", "Egusi Soup", "Peanut Stew">>,
        sideDishes |-> <<"Fufu", "Fried Plantains", "Moin Moin">>,
        desserts |-> <<"Chin Chin", "Puff Puff", "Coconut Candy">>,
        beverages |-> <<"Palm Wine", "Bissap", "Ginger Drink">> ])
 @@ ("east_africa" :> [
        mainDishes |-> <<"Injera with Wat", "Nyama Choma", "Pilau Rice">>,
        sideDishes |-> <<"Chapati", "Sukuma Wiki", "Ugali">>,
        desserts |-> <<"Mandazi", "Kashata", "Maandazi">>,
        beverages |-> <<"Ethiopian Coffee", "Tangawizi", "Urwaga">> ])
 @@ ("north_africa" :> [
        mainDishes |-> <<"Couscous", "Tagine", "Shakshuka">>,
        sideDishes |-> <<"Harissa", "Zaalouk", "Batbout">>,
        desserts |-> <<"Makroud", "Msemen", "Basbousa">>,
        beverages |-> <<"Mint Tea", "Almond Milk", "Hibiscus Tea">> ])

etiquette ==
    ("east_asia" :> [
        presentation |-> <<
            "Serve rice in individual bowls",
            "Place shared dishes in the center",
            "Arrange food to highlight colors and textures",
            "Use small plates for individual portions" >>,
        customs |-> <<
            "Hold rice bowl close to mouth",
            "Use chopsticks correctly",
            "Pour tea for others before yourself",
            "Tap fingers as thanks when someone pours tea for you" >>,
        taboos |-> <<
            "Don't stick chopsticks vertically in rice",
            "Don't pass food directly from chopsticks to chopsticks",
            "Don't point with chopsticks",
            "Don't flip fish over on the plate" >>,
        servingOrder |-> <<
            "Soup first",
            "Rice and main dishes together",
            "Fruit or light dessert last",
            "Tea throughout the meal" >> ])
 @@ ("southeast_asia" :> [
        presentation |-> <<
            "Serve food family-style on a raised platform",
            "Arrange dishes by spice level",
            "Include contrasting textures and flavors",
            "Garnish with fresh herbs and lime wedges" >>,
        customs |-> <<
            "Eat with right hand in some regions",
            "Use fork and spoon (fork to push, spoon to eat)",
            "Take small portions to sample everything",
            "Cool spicy dishes with plain rice" >>,
        taboos |-> <<
            "Don't use left hand for eating",
            "Don't place serving spoons in your mouth",
            "Don't leave chopsticks crossed",
            "Don't waste rice" >>,
        servingOrder |-> <<
            "All dishes served simultaneously",
            "Rice as the foundation",
            "Balance between spicy, sour, sweet and savory in one meal",
            "Fresh fruit for dessert" >> ])
 @@ ("south_asia" :> [
        presentation |-> <<
            "Serve on thali plates with small compartments",
            "Balance colors and textures across the plate",
            "Place bread and rice separately",
            "Arrange accompaniments in small bowls" >>,
        customs |-> <<
            "Traditionally eat with right hand fingers",
            "Tear bread with fingers, not cutlery",
            "Share food and offer to others first",
            "Mix rice with curry using fingertips" >>,
        taboos |-> <<
            "Don't use left hand for eating or passing food",
            "Don't waste food on your plate",
            "Don't start eating before elders or guests",
            "Don't lick fingers in formal settings" >>,
        servingOrder |-> <<
            "Begin with something sweet in some regions",
            "Serve bread and rice with main dishes",
            "Sweet dish or paan to conclude the meal",
            "Yogurt or raita to balance spice" >> ])
 @@ ("middle_east" :> [
        presentation |-> <<
            "Large central platters for sharing",
            "Multiple small mezze dishes",
            "Vibrant colors and garnishes",
            "Arrange bread in cloth-lined baskets" >>,
        customs |-> <<
            "Break bread with hands, never cut with knife",
            "Dip bread in shared dishes",
            "Serve elders and guests first",
            "Use right hand for eating" >>,
        taboos |-> <<
            "Don't refuse offered food (take at least a small portion)",
            "Don't eat with left hand",
            "Don't rush through meals",
            "Don't blow on hot food" >>,
        servingOrder |-> <<
            "Mezze (small appetizers) first",
            "Main dishes with bread",
            "Sweet tea and desserts after the meal",
            "Coffee to conclude" >> ])
 @@ ("mediterranean" :> [
        presentation |-> <<
            "Simple, rustic presentation",
            "Fresh herbs as garnish",
            "Olive oil drizzled as finishing touch",
            "Colorful vegetable arrangements" >>,
        customs |-> <<
            "Bread accompanies the entire meal",
            "Share multiple dishes family-style",
            "Use bread to soak up sauces",
            "Leisurely pace with conversation" >>,
        taboos |-> <<
            "Don't rush the meal",
            "Don't waste bread",
            "Don't add cheese to seafood pasta in Italy",
            "Don't ask for additional seasoning before tasting" >>,
        servingOrder |-> <<
            "Antipasti/appetizers",
            "Pasta or rice dish",
            "Main protein dish",
            "Salad course",
            "Cheese and fruit",
            "Dessert and coffee" >> ])
 @@ ("latin_america" :> [
        presentation |-> <<
            "Colorful arrangements",
            "Fresh garnishes like cilantro and lime",
            "Serve with traditional salsas on the side",
            "Family-style large platters" >>,
        customs |-> <<
            "Wait for eldest to begin eating",
            "Keep hands visible on table, not in lap",
            "Use tortillas or bread to scoop food",
            "Express appreciation for the food" >>,
        taboos |-> <<
            "Don't eat tacos with fork and knife",
            "Don't add hot sauce before tasting",
            "Don't refuse offered food in someone's home",
            "Don't leave the table until everyone is finished" >>,
        servingOrder |-> <<
            "Soup or light appetizer",
            "Main course with sides",
            "Dessert",
            "Coffee or digestif" >> ])

----------------------------------------------------------------------------
(* findIngredientSubstitutes                                                *)

\* pantryItems.some(item => item.name.toLowerCase().includes(sub.toLowerCase()))
inPantry(sub, items) ==
    \E k \in 1..Len(items) :
        includes(toLowerCase(items[k].name), toLowerCase(sub))

RECURSIVE findFrom(_, _, _)
findFrom(substitutes, items, j) ==
    IF j > Len(substitutes) THEN 0
    ELSE IF inPantry(substitutes[j], items) THEN j
    ELSE findFrom(substitutes, items, j + 1)

\* a scan that walks the pantry first and takes the first candidate the
\* first matching item contains
RECURSIVE findByPantryFrom(_, _, _)
findByPantryFrom(substitutes, items, k) ==
    IF k > Len(items) THEN 0
    ELSE LET j == findFrom(substitutes, <<items[k]>>, 1)
         IN  IF j # 0 THEN j ELSE findByPantryFrom(substitutes, items, k + 1)

availableSubstitutePantryFirst(rule, items) ==
    findByPantryFrom(rule.substitutes, items, 1)

\* rule.substitutes.find(sub => pantryItems.some(...)): the index of the first
\* candidate some pantry item contains, 0 when find returns undefined
availableSubstitute(rule, items) ==
    findFrom(rule.substitutes, items, 1)

\* no entry when nothing is available in the pantry
pushSubstitutionNoFallback(substitutions, ingredient, rule, items) ==
    LET j == availableSubstitute(rule, items)
    IN  IF j # 0 /\ rule.substitutes[j] # ""
        THEN Append(substitutions,
                    [original |-> ingredient, substitute |-> rule.substitutes[j],
                     notes |-> rule.notes, flavorImpact |-> rule.flavorImpact])
        ELSE substitutions

\* the last candidate suggested when nothing is available in the pantry
pushSubstitutionLastFallback(substitutions, ingredient, rule, items) ==
    LET j == availableSubstitute(rule, items)
    IN  IF j # 0 /\ rule.substitutes[j] # ""
        THEN Append(substitutions,
                    [original |-> ingredient, substitute |-> rule.substitutes[j],
                     notes |-> rule.notes, flavorImpact |-> rule.flavorImpact])
        ELSE Append(substitutions,
                    [original |-> ingredient,
                     substitute |-> rule.substitutes[Len(rule.substitutes)],
                     notes |-> rule.notes, flavorImpact |-> rule.flavorImpact])

\* a substitute found in the pantry rated as of minimal impact
pushSubstitutionAvailableMinimal(substitutions, ingredient, rule, items) ==
    LET j == availableSubstitute(rule, items)
    IN  IF j # 0 /\ rule.substitutes[j] # ""
        THEN Append(substitutions,
                    [original |-> ingredient, substitute |-> rule.substitutes[j],
                     notes |-> rule.notes, flavorImpact |-> "minimal"])
        ELSE Append(substitutions,
                    [original |-> ingredient, substitute |-> rule.substitutes[1],
                     notes |-> rule.notes, flavorImpact |-> rule.flavorImpact])

\* if (availableSubstitute) push it, else push rule.substitutes[0]; a found
\* candidate is falsy only when it is the empty string
pushSubstitution(substitutions, ingredient, rule, items) ==
    LET j == availableSubstitute(rule, items)
    IN  IF j # 0 /\ rule.substitutes[j] # ""
        THEN Append(substitutions,
                    [original |-> ingredient, substitute |-> rule.substitutes[j],
                     notes |-> rule.notes, flavorImpact |-> rule.flavorImpact])
        ELSE Append(substitutions,
                    [original |-> ingredient, substitute |-> rule.substitutes[1],
                     notes |-> rule.notes, flavorImpact |-> rule.flavorImpact])

\* the rule looked up by the ingredient as spelled, not lowercased
RECURSIVE substitutionsFromExactKey(_, _, _, _)
substitutionsFromExactKey(authenticIngredients, items, i, substitutions) ==
    IF i > Len(authenticIngredients)
    THEN [kind |-> "return", value |-> substitutions]
    ELSE LET ingredient == authenticIngredients[i]
             rule == JsGet(getSubstitutionRules, ingredient)
         IN  CASE rule.kind = "own" ->
                    substitutionsFromExactKey(authenticIngredients, items, i + 1,
                        pushSubstitution(substitutions, ingredient, rule.value, items))
               [] rule.kind = "inherited" ->
                    [kind |-> "TypeError", value |-> <<>>]
               [] OTHER ->
                    substitutionsFromExactKey(authenticIngredients, items, i + 1,
                                              substitutions)

\* the for loop from ingredient i on.  An inherited property is truthy and has
\* no substitutes, so rule.substitutes.find throws a TypeError
RECURSIVE substitutionsFrom(_, _, _, _)
substitutionsFrom(authenticIngredients, items, i, substitutions) ==
    IF i > Len(authenticIngredients)
    THEN [kind |-> "return", value |-> substitutions]
    ELSE LET ingredient == authenticIngredients[i]
             rule == JsGet(getSubstitutionRules, toLowerCase(ingredient))
         IN  CASE rule.kind = "own" ->
                    substitutionsFrom(authenticIngredients, items, i + 1,
                        pushSubstitution(substitutions, ingredient, rule.value, items))
               [] rule.kind = "inherited" ->
                    [kind |-> "TypeError", value |-> <<>>]
               [] OTHER ->
                    substitutionsFrom(authenticIngredients, items, i + 1, substitutions)

findIngredientSubstitutes(r, items, uRegion) ==
    substitutionsFrom(r.authenticIngredients, items, 1, <<>>)

----------------------------------------------------------------------------
(* analyzeAuthenticityScore                                                 *)

Max(a, b) == IF a >= b THEN a ELSE b

\* the feedback names the original where the substitute belongs
scoreStepSwapped(acc, sub) ==
    CASE sub.flavorImpact = "minimal" ->
            [score |-> acc.score - 5,
             feedback |-> Append(acc.feedback,
                "Using " \o sub.original \o " instead of " \o sub.substitute
                    \o " has minimal impact on authenticity")]
      [] sub.flavorImpact = "moderate" ->
            [score |-> acc.score - 10,
             feedback |-> Append(acc.feedback,
                "Using " \o sub.original \o " instead of " \o sub.substitute
                    \o " moderately affects the authentic flavor")]
      [] sub.flavorImpact = "significant" ->
            [score |-> acc.score - 20,
             feedback |-> Append(acc.feedback,
                "Using " \o sub.original \o " instead of " \o sub.substitute
                    \o " significantly changes the traditional taste")]
      [] OTHER -> acc

\* one turn of the loop: the switch on sub.flavorImpact (no default case)
scoreStep(acc, sub) ==
    CASE sub.flavorImpact = "minimal" ->
            [score |-> acc.score - 5,
             feedback |-> Append(acc.feedback,
                "Using " \o sub.substitute \o " instead of " \o sub.original
                    \o " has minimal impact on authenticity")]
      [] sub.flavorImpact = "moderate" ->
            [score |-> acc.score - 10,
             feedback |-> Append(acc.feedback,
                "Using " \o sub.substitute \o " instead of " \o sub.original
                    \o " moderately affects the authentic flavor")]
      [] sub.flavorImpact = "significant" ->
            [score |-> acc.score - 20,
             feedback |-> Append(acc.feedback,
                "Using " \o sub.substitute \o " instead of " \o sub.original
                    \o " significantly changes the traditional taste")]
      [] OTHER -> acc

RECURSIVE scoreFrom(_, _, _)
scoreFrom(subs, i, acc) ==
    IF i > Len(subs) THEN acc
    ELSE scoreFrom(subs, i + 1, scoreStep(acc, subs[i]))

\* the score returned as accumulated
analyzeAuthenticityScoreUnclamped(r, subs) ==
    scoreFrom(subs, 1, [score |-> 100, feedback |-> <<>>])

\* the score of an earlier scoring call carried into the next one
analyzeAuthenticityScoreCarried(r, subs) ==
    LET earlier == {c \in DOMAIN seen : c.op = "analyzeAuthenticityScore"}
        start == IF earlier = {} THEN 100
                 ELSE seen[CHOOSE c \in earlier : TRUE].value.score
        acc == scoreFrom(subs, 1, [score |-> start, feedback |-> <<>>])
    IN  [score |-> Max(0, acc.score), feedback |-> acc.feedback]

\* Math.abs in the place of Math.max(0, score)
analyzeAuthenticityScoreAbs(r, subs) ==
    LET acc == scoreFrom(subs, 1, [score |-> 100, feedback |-> <<>>])
    IN  [score |-> IF acc.score < 0 THEN 0 - acc.score ELSE acc.score,
         feedback |-> acc.feedback]

analyzeAuthenticityScore(r, subs) ==
    LET acc == scoreFrom(subs, 1, [score |-> 100, feedback |-> <<>>])
    IN  [score |-> Max(0, acc.score), feedback |-> acc.feedback]

----------------------------------------------------------------------------
(* findComplementaryDishes and getServingEtiquetteGuide                     *)

\* obj.field || []: the entry's list, or [] for an object without the field
orEmpty(obj, field) ==
    IF obj.kind = "own" THEN obj.value[field] ELSE <<>>

\* the region code lowercased before the lookup
getTraditionalPairingsAnyCase(reg) ==
    LET p == JsGet(pairings, toLowerCase(reg))
    IN  IF p.kind # "undefined" THEN p
        ELSE [kind |-> "own",
              value |-> [mainDishes |-> <<>>, sideDishes |-> <<>>,
                         desserts |-> <<>>, beverages |-> <<>>]]

\* an entry returned without its last dessert
getTraditionalPairingsShort(reg) ==
    LET p == JsGet(pairings, reg)
    IN  IF p.kind = "own"
        THEN [p EXCEPT !.value.desserts = SubSeq(@, 1, Len(@) - 1)]
        ELSE IF p.kind = "inherited" THEN p
        ELSE [kind |-> "own",
              value |-> [mainDishes |-> <<>>, sideDishes |-> <<>>,
                         desserts |-> <<>>, beverages |-> <<>>]]

\* pairings[region] || { all four lists empty }
getTraditionalPairings(reg) ==
    LET p == JsGet(pairings, reg)
    IN  IF p.kind # "undefined" THEN p
        ELSE [kind |-> "own",
              value |-> [mainDishes |-> <<>>, sideDishes |-> <<>>,
                         desserts |-> <<>>, beverages |-> <<>>]]

findComplementaryDishes(r, cuisine) ==
    LET p == getTraditionalPairings(cuisine.region)
    IN  [mainDishes |-> orEmpty(p, "mainDishes"),
         sideDishes |-> orEmpty(p, "sideDishes"),
         desserts   |-> orEmpty(p, "desserts"),
         beverages  |-> orEmpty(p, "beverages")]

\* a region without etiquette served the etiquette of east_asia
getRegionalEtiquetteDefaulted(reg) ==
    LET e == JsGet(etiquette, reg)
    IN  IF e.kind # "undefined" THEN e
        ELSE [kind |-> "own", value |-> etiquette["east_asia"]]

\* etiquette[region] || { all four lists empty }
getRegionalEtiquette(reg) ==
    LET e == JsGet(etiquette, reg)
    IN  IF e.kind # "undefined" THEN e
        ELSE [kind |-> "own",
              value |-> [presentation |-> <<>>, customs |-> <<>>,
                         taboos |-> <<>>, servingOrder |-> <<>>]]

getServingEtiquetteGuide(r, reg) ==
    LET e == getRegionalEtiquette(reg)
    IN  [presentation |-> orEmpty(e, "presentation"),
         customs      |-> orEmpty(e, "customs"),
         taboos       |-> orEmpty(e, "taboos"),
         servingOrder |-> orEmpty(e, "servingOrder")]

----------------------------------------------------------------------------
(* The callers' inputs                                                      *)

SeqsUpTo(S, n) == UNION {[1..k -> S] : k \in 0..n}

\* ingredient names of a recipe: keys of the rule table, other spellings of
\* them, a name without a rule, and a name every object literal inherits
IngredientNames ==
    {"fish sauce", "Fish Sauce", "tahini", "ghee", "salt", "constructor"}

\* free-text pantry item names
PantryNames ==
    {"Light Soy Sauce", "Worcestershire Sauce", "SOY SAUCE WITH SALT",
     "Clarified Butter", "Sunflower Seed Butter"}

Recipes ==
    {[authenticIngredients |-> s] : s \in SeqsUpTo(IngredientNames, MaxRecipe)}

Pantries == SeqsUpTo({[name |-> n] : n \in PantryNames}, MaxPantry)

\* the userRegion argument, which findIngredientSubstitutes never reads
UserRegions == {"south_asia"}

\* substitutions a caller hands to the scorer, one of each flavor impact
SubstitutionPool ==
    {[original |-> "tahini", substitute |-> "smooth peanut butter",
      notes |-> "Thin with sesame oil if available for closer flavor profile",
      flavorImpact |-> "minimal"],
     [original |-> "Sumac", substitute |-> "lemon zest",
      notes |-> "Add a touch of salt to lemon zest for similar tanginess",
      flavorImpact |-> "moderate"],
     [original |-> "fish sauce", substitute |-> "worcestershire sauce",
      notes |-> "Add a pinch of salt and a drop of vinegar to better mimic umami flavor",
      flavorImpact |-> "significant"]}

\* region codes a caller may pass: the codes of the tables, other spellings,
\* unknown codes and names every object literal inherits
RegionCodes ==
    {"east_asia", "southeast_asia", "south_asia", "middle_east", "mediterranean",
     "latin_america", "caribbean", "west_africa", "east_africa", "north_africa",
     "atlantis", "East_Asia", "EAST_ASIA", "", "constructor", "__proto__", "toString"}

noRecipe == [authenticIngredients |-> <<>>]
noResult == [kind |-> "none", value |-> <<>>]

\* no observer has recorded a call
noObserver == seen = [c \in {} |-> noResult]

\* no caller holds a returned array
noCallers == heap = <<>> /\ callers = <<>>

\* no provider is mounted
noProvider ==
    /\ preferences = [obj |-> "none", value |-> <<>>]
    /\ queue = <<>>
    /\ effects = "none"
    /\ storage = [present |-> FALSE, value |-> <<>>]
    /\ rootClass = {}
    /\ accentApplied = ""
    /\ systemDark = FALSE
    /\ listening = FALSE

----------------------------------------------------------------------------
(* The state machine: one call of one of the four operations                *)

Init ==
    /\ pc = "call"
    /\ result = noResult
    /\ noObserver
    /\ noCallers
    /\ noProvider
    /\ \/ /\ op = "findIngredientSubstitutes"
          /\ recipe \in Recipes
          /\ pantryItems \in Pantries
          /\ userRegion \in UserRegions
          /\ usedSubstitutions = <<>>
          /\ region = ""
       \/ /\ op = "analyzeAuthenticityScore"
          /\ recipe = noRecipe
          /\ pantryItems = <<>>
          /\ userRegion = ""
          /\ usedSubstitutions \in SeqsUpTo(SubstitutionPool, MaxSubs)
          /\ region = ""
       \/ /\ op \in {"findComplementaryDishes", "getServingEtiquetteGuide"}
          /\ recipe = noRecipe
          /\ pantryItems = <<>>
          /\ userRegion = ""
          /\ usedSubstitutions = <<>>
          /\ region \in RegionCodes

FindIngredientSubstitutes ==
    /\ pc = "call"
    /\ op = "findIngredientSubstitutes"
    /\ result' = findIngredientSubstitutes(recipe, pantryItems, userRegion)
    /\ pc' = "done"
    /\ UNCHANGED <<op, recipe, pantryItems, userRegion, usedSubstitutions, region>>
    /\ UNCHANGED otherVars

AnalyzeAuthenticityScore ==
    /\ pc = "call"
    /\ op = "analyzeAuthenticityScore"
    /\ result' = [kind |-> "return",
                  value |-> analyzeAuthenticityScore(recipe, usedSubstitutions)]
    /\ pc' = "done"
    /\ UNCHANGED <<op, recipe, pantryItems, userRegion, usedSubstitutions, region>>
    /\ UNCHANGED otherVars

FindComplementaryDishes ==
    /\ pc = "call"
    /\ op = "findComplementaryDishes"
    /\ result' = [kind |-> "return",
                  value |-> findComplementaryDishes(recipe,
                                [region |-> region, keyIngredients |-> <<>>])]
    /\ pc' = "done"
    /\ UNCHANGED <<op, recipe, pantryItems, userRegion, usedSubstitutions, region>>
    /\ UNCHANGED otherVars

GetServingEtiquetteGuide ==
    /\ pc = "call"
    /\ op = "getServingEtiquetteGuide"
    /\ result' = [kind |-> "return", value |-> getServingEtiquetteGuide(recipe, region)]
    /\ pc' = "done"
    /\ UNCHANGED <<op, recipe, pantryItems, userRegion, usedSubstitutions, region>>
    /\ UNCHANGED otherVars

Next ==
    \/ FindIngredientSubstitutes
    \/ AnalyzeAuthenticityScore
    \/ FindComplementaryDishes
    \/ GetServingEtiquetteGuide

Spec == Init /\ [][Next]_vars


----------------------------------------------------------------------------
(* The state machine of a caller that calls again and again                 *)

\* the calls such a caller makes
ReplayCalls ==
    {[op |-> "findIngredientSubstitutes",
      recipe |-> [authenticIngredients |-> <<"Fish Sauce", "ghee">>],
      pantryItems |-> <<[name |-> "Clarified Butter"]>>,
      userRegion |-> "south_asia", usedSubstitutions |-> <<>>, region |-> ""],
     [op |-> "findIngredientSubstitutes",
      recipe |-> [authenticIngredients |-> <<"tahini", "constructor">>],
      pantryItems |-> <<>>,
      userRegion |-> "south_asia", usedSubstitutions |-> <<>>, region |-> ""]}
  \cup
    {[op |-> "analyzeAuthenticityScore", recipe |-> noRecipe, pantryItems |-> <<>>,
      userRegion |-> "", usedSubstitutions |-> s, region |-> ""] :
        s \in {<<>>} \cup {<<x>> : x \in SubstitutionPool}}
  \cup
    {[op |-> o, recipe |-> noRecipe, pantryItems |-> <<>>, userRegion |-> "",
      usedSubstitutions |-> <<>>, region |-> reg] :
        o \in {"findComplementaryDishes", "getServingEtiquetteGuide"},
        reg \in {"east_asia", "atlantis"}}

currentCall ==
    [op |-> op, recipe |-> recipe, pantryItems |-> pantryItems,
     userRegion |-> userRegion, usedSubstitutions |-> usedSubstitutions,
     region |-> region]

InitCalls ==
    /\ pc = "call"
    /\ result = noResult
    /\ noObserver
    /\ noCallers
    /\ noProvider
    /\ \E c \in ReplayCalls :
          /\ op = c.op
          /\ recipe = c.recipe
          /\ pantryItems = c.pantryItems
          /\ userRegion = c.userRegion
          /\ usedSubstitutions = c.usedSubstitutions
          /\ region = c.region

\* the caller takes the outcome and makes its next call; the observer keeps
\* the outcome when it is the first of these arguments
CallAgain ==
    /\ pc = "done"
    /\ seen' = IF currentCall \in DOMAIN seen THEN seen
               ELSE seen @@ (currentCall :> result)
    /\ \E c \in ReplayCalls :
          /\ op' = c.op
          /\ recipe' = c.recipe
          /\ pantryItems' = c.pantryItems
          /\ userRegion' = c.userRegion
          /\ usedSubstitutions' = c.usedSubstitutions
          /\ region' = c.region
    /\ pc' = "call"
    /\ result' = noResult
    /\ UNCHANGED <<sharedVars, providerVars>>

NextCalls ==
    \/ FindIngredientSubstitutes
    \/ AnalyzeAuthenticityScore
    \/ FindComplementaryDishes
    \/ GetServingEtiquetteGuide
    \/ CallAgain

SpecCalls == InitCalls /\ [][NextCalls]_vars

----------------------------------------------------------------------------
(* The state machine of several callers that hold what the calls returned   *)

Callers == {"a", "b"}

\* the calls the callers make
SharedCalls ==
    {[op |-> "findIngredientSubstitutes",
      recipe |-> [authenticIngredients |-> <<"ghee">>],
      pantryItems |-> <<[name |-> "Clarified Butter"]>>,
      userRegion |-> "south_asia", usedSubstitutions |-> <<>>, region |-> ""],
     [op |-> "analyzeAuthenticityScore", recipe |-> noRecipe, pantryItems |-> <<>>,
      userRegion |-> "",
      usedSubstitutions |-> <<[original |-> "tahini", substitute |-> "smooth peanut butter",
          notes |-> "Thin with sesame oil if available for closer flavor profile",
          flavorImpact |-> "minimal"]>>,
      region |-> ""],
     [op |-> "findComplementaryDishes", recipe |-> noRecipe, pantryItems |-> <<>>,
      userRegion |-> "", usedSubstitutions |-> <<>>, region |-> "east_asia"],
     [op |-> "getServingEtiquetteGuide", recipe |-> noRecipe, pantryItems |-> <<>>,
      userRegion |-> "", usedSubstitutions |-> <<>>, region |-> "east_asia"]}

\* what a call gives its caller when it runs alone: how it ends, the score,
\* and the arrays it returns, by name in the order the call creates them
aloneOf(c) ==
    CASE c.op = "findIngredientSubstitutes" ->
            LET r == findIngredientSubstitutes(c.recipe, c.pantryItems, c.userRegion)
            IN  [kind |-> r.kind, score |-> 0,
                 names |-> IF r.kind = "return" THEN <<"substitutions">> ELSE <<>>,
                 lists |-> [substitutions |-> r.value]]
      [] c.op = "analyzeAuthenticityScore" ->
            LET r == analyzeAuthenticityScore(c.recipe, c.usedSubstitutions)
            IN  [kind |-> "return", score |-> r.score,
                 names |-> <<"feedback">>, lists |-> [feedback |-> r.feedback]]
      [] c.op = "findComplementaryDishes" ->
            [kind |-> "return", score |-> 0,
             names |-> <<"mainDishes", "sideDishes", "desserts", "beverages">>,
             lists |-> findComplementaryDishes(c.recipe,
                            [region |-> c.region, keyIngredients |-> <<>>])]
      [] c.op = "getServingEtiquetteGuide" ->
            [kind |-> "return", score |-> 0,
             names |-> <<"presentation", "customs", "taboos", "servingOrder">>,
             lists |-> getServingEtiquetteGuide(c.recipe, c.region)]

\* an array kept at module level: the array an earlier call created in the
\* same place is handed out again
newArrayShared(h, origin, items) ==
    IF \E a \in 1..Len(h) : h[a].origin = origin THEN h
    ELSE Append(h, [origin |-> origin, items |-> items])

\* an array literal, a table entry's list included, evaluated inside a
\* function body: every call creates a new array
newArray(h, origin, items) ==
    Append(h, [origin |-> origin, items |-> items])

\* the address of the array last created at origin
addressOf(h, origin) ==
    CHOOSE a \in 1..Len(h) :
        /\ h[a].origin = origin
        /\ \A b \in (a + 1)..Len(h) : h[b].origin # origin

\* the heap after call c has created the arrays it returns, from the i-th on
RECURSIVE heapAfter(_, _, _)
heapAfter(h, c, i) ==
    LET alone == aloneOf(c)
    IN  IF i > Len(alone.names) THEN h
        ELSE heapAfter(newArray(h, <<c.op, c.region, alone.names[i]>>,
                                alone.lists[alone.names[i]]),
                       c, i + 1)

idleCaller ==
    [call |-> CHOOSE c \in SharedCalls : TRUE, pc |-> "idle", kind |-> "none",
     score |-> 0, names |-> <<>>, at |-> <<>>, made |-> 0]

RECURSIVE madeBy(_, _)
madeBy(cs, ws) ==
    IF ws = {} THEN 0
    ELSE LET w == CHOOSE x \in ws : TRUE
         IN  cs[w].made + madeBy(cs, ws \ {w})

InitShared ==
    /\ op = ""
    /\ recipe = noRecipe
    /\ pantryItems = <<>>
    /\ userRegion = ""
    /\ usedSubstitutions = <<>>
    /\ region = ""
    /\ pc = "idle"
    /\ result = noResult
    /\ noObserver
    /\ noProvider
    /\ heap = <<>>
    /\ callers = [w \in Callers |-> idleCaller]

\* caller w makes call c and holds what it returns
CallShared(w, c) ==
    /\ callers[w].pc \in {"idle", "mutated"}
    /\ madeBy(callers, Callers) < MaxCalls
    /\ heap' = heapAfter(heap, c, 1)
    /\ callers' = [callers EXCEPT ![w] =
          [call |-> c, pc |-> "returned", kind |-> aloneOf(c).kind,
           score |-> aloneOf(c).score, names |-> aloneOf(c).names,
           at |-> [i \in 1..Len(aloneOf(c).names) |->
                      addressOf(heap', <<c.op, c.region, aloneOf(c).names[i]>>)],
           made |-> callers[w].made + 1]]
    /\ UNCHANGED <<callVars, observerVars, providerVars>>

\* caller w pushes a string onto the i-th array it was returned
MutateReturned(w, i) ==
    /\ callers[w].pc = "returned"
    /\ i \in 1..Len(callers[w].at)
    /\ heap' = [heap EXCEPT ![callers[w].at[i]].items = Append(@, "mine")]
    /\ callers' = [callers EXCEPT ![w].pc = "mutated"]
    /\ UNCHANGED <<callVars, observerVars, providerVars>>

NextShared ==
    \/ \E w \in Callers, c \in SharedCalls : CallShared(w, c)
    \/ \E w \in Callers, i \in 1..4 : MutateReturned(w, i)

SpecShared == InitShared /\ [][NextShared]_vars

----------------------------------------------------------------------------
(* UserPreferencesProvider (src/unnamed/part_000)                           *)
(*                                                                          *)
(* The preferences state is an object: obj tells whether it is the          *)
(* defaultPreferences object itself or an object an update created, which  *)
(* is what React's Object.is comparison of states and of effect             *)
(* dependencies sees.  The key notifications stands for the keys that no    *)
(* effect reads (notifications, dietaryPreferences, region, units).  The    *)
(* stored value is the record JSON.stringify writes and JSON.parse reads    *)
(* back, which for these strings and booleans is the record itself.         *)

Themes == {"light", "dark", "system"}

Colors == {"#0ea5e9", "#ff0000"}

defaultPreferences ==
    [theme |-> "system", accentColor |-> "#0ea5e9", notifications |-> TRUE]

\* what localStorage holds under 'userPreferences' when the provider mounts:
\* nothing, or what an earlier session saved
SavedAtMount ==
    {[present |-> FALSE, value |-> defaultPreferences],
     [present |-> TRUE,
      value |-> [theme |-> "dark", accentColor |-> "#ff0000", notifications |-> TRUE]]}

\* useState's initializer: { ...defaultPreferences, ...JSON.parse(saved) }, or
\* the defaultPreferences object
initialPreferences(saved) ==
    IF saved.present THEN [obj |-> "created", value |-> saved.value]
    ELSE [obj |-> "default", value |-> defaultPreferences]

\* one queued setPreferences: prev => ({ ...prev, [key]: value }), or
\* defaultPreferences
applyUpdate(prev, u) ==
    IF u.kind = "merge"
    THEN [obj |-> "created", value |-> [prev.value EXCEPT ![u.key] = u.value]]
    ELSE [obj |-> "default", value |-> defaultPreferences]

RECURSIVE applyQueue(_, _, _)
applyQueue(prev, q, i) ==
    IF i > Len(q) THEN prev ELSE applyQueue(applyUpdate(prev, q[i]), q, i + 1)

\* Object.is on two states: an object an update created is a new object
sameObject(a, b) == a.obj = "default" /\ b.obj = "default"

\* the class the apply-theme effect adds
themeClass(theme, dark) ==
    IF theme = "system" THEN (IF dark THEN "dark" ELSE "light") ELSE theme

\* the listener added whatever the theme
listensAlways(theme) == TRUE

\* the second effect: handleChange is registered only for the theme 'system'
listensFor(theme) == theme = "system"

noCall ==
    /\ op = ""
    /\ recipe = noRecipe
    /\ pantryItems = <<>>
    /\ userRegion = ""
    /\ usedSubstitutions = <<>>
    /\ region = ""
    /\ pc = "idle"
    /\ result = noResult

\* the provider has rendered once; its effects have not run yet
InitPrefs ==
    /\ noCall
    /\ noObserver
    /\ noCallers
    /\ storage \in SavedAtMount
    /\ preferences = initialPreferences(storage)
    /\ queue = <<>>
    /\ rootClass \in SUBSET {"light", "dark"}
    /\ accentApplied = ""
    /\ systemDark \in BOOLEAN
    /\ listening = FALSE
    /\ effects = "mount"

enqueue(u) ==
    /\ Len(queue) < MaxQueue
    /\ queue' = Append(queue, u)

UpdatePreference ==
    /\ \/ \E t \in Themes : enqueue([kind |-> "merge", key |-> "theme", value |-> t])
       \/ \E c \in Colors :
             enqueue([kind |-> "merge", key |-> "accentColor", value |-> c])
       \/ \E b \in BOOLEAN :
             enqueue([kind |-> "merge", key |-> "notifications", value |-> b])
    /\ UNCHANGED <<preferences, storage, rootClass, accentApplied, systemDark,
                   listening, effects>>
    /\ UNCHANGED <<callVars, observerVars, sharedVars>>

\* the stored value rewritten at once when there is one, the accent colour
\* applied at once, then the state update
UpdateAccentColor ==
    /\ \E c \in Colors :
          /\ enqueue([kind |-> "merge", key |-> "accentColor", value |-> c])
          /\ storage' = IF storage.present
                        THEN [storage EXCEPT !.value.accentColor = c]
                        ELSE storage
          /\ accentApplied' = c
    /\ UNCHANGED <<preferences, rootClass, systemDark, listening, effects>>
    /\ UNCHANGED <<callVars, observerVars, sharedVars>>

ResetPreferences ==
    /\ enqueue([kind |-> "reset", key |-> "", value |-> ""])
    /\ UNCHANGED <<preferences, storage, rootClass, accentApplied, systemDark,
                   listening, effects>>
    /\ UNCHANGED <<callVars, observerVars, sharedVars>>

\* React renders with the queued updates applied in order.  A state that is
\* the object it was is no update: nothing is committed and no effect runs.
\* Otherwise the first effect is due, and the second when the theme changed.
Render ==
    /\ queue # <<>>
    /\ effects = "none"
    /\ LET next == applyQueue(preferences, queue, 1)
       IN  IF sameObject(next, preferences)
           THEN UNCHANGED <<preferences, effects>>
           ELSE /\ preferences' = next
                /\ effects' = IF next.value.theme # preferences.value.theme
                              THEN "both" ELSE "first"
    /\ queue' = <<>>
    /\ UNCHANGED <<storage, rootClass, accentApplied, systemDark, listening>>
    /\ UNCHANGED <<callVars, observerVars, sharedVars>>

\* the effects that are due: the second effect's cleanup, the first effect
\* (store, apply theme and accent colour), the second effect
RunEffects ==
    /\ effects # "none"
    /\ storage' = [present |-> TRUE, value |-> preferences.value]
    /\ rootClass' = (rootClass \ {"light", "dark"})
                        \cup {themeClass(preferences.value.theme, systemDark)}
    /\ accentApplied' = preferences.value.accentColor
    /\ listening' = IF effects = "first" THEN listening
                    ELSE listensFor(preferences.value.theme)
    /\ effects' = "none"
    /\ UNCHANGED <<preferences, queue, systemDark>>
    /\ UNCHANGED <<callVars, observerVars, sharedVars>>

\* the system colour scheme changes; handleChange runs when it is registered
SystemSchemeChange ==
    /\ systemDark' = ~systemDark
    /\ rootClass' = IF listening
                    THEN (rootClass \ {"light", "dark"})
                            \cup {IF systemDark' THEN "dark" ELSE "light"}
                    ELSE rootClass
    /\ UNCHANGED <<preferences, queue, storage, accentApplied, listening, effects>>
    /\ UNCHANGED <<callVars, observerVars, sharedVars>>

NextPrefs ==
    \/ UpdatePreference
    \/ UpdateAccentColor
    \/ ResetPreferences
    \/ Render
    \/ RunEffects
    \/ SystemSchemeChange

SpecPrefs == InitPrefs /\ [][NextPrefs]_vars

----------------------------------------------------------------------------
(* Vocabulary of the properties                                             *)

\* the call of operation o has returned a value
returned(o) == pc = "done" /\ op = o /\ result.kind = "return"

ingredients == recipe.authenticIngredients

\* the ingredient has a substitution rule: its lowercased name is a key
hasRule(name) == toLowerCase(name) \in DOMAIN getSubstitutionRules

candidatesOf(name) == getSubstitutionRules[toLowerCase(name)].substitutes

\* some pantry item's lowercased name contains the candidate
inSomeItem(cand) ==
    \E k \in 1..Len(pantryItems) : includes(toLowerCase(pantryItems[k].name), cand)

\* the candidates of the rule that are available, by position
availableOf(name) ==
    {c \in 1..Len(candidatesOf(name)) : inSomeItem(candidatesOf(name)[c])}

\* the position in the output of the entry for input position i
entryOf(i) == Cardinality({j \in 1..i : hasRule(ingredients[j])})

Reverse(s) == [k \in 1..Len(s) |-> s[Len(s) + 1 - k]]

countOf(impact) ==
    Cardinality({i \in 1..Len(usedSubstitutions) :
                    usedSubstitutions[i].flavorImpact = impact})

\* the penalty of the first n substitutions handed to the scorer
penaltyOf(n) ==
    5 * Cardinality({i \in 1..n : usedSubstitutions[i].flavorImpact = "minimal"})
  + 10 * Cardinality({i \in 1..n : usedSubstitutions[i].flavorImpact = "moderate"})
  + 20 * Cardinality({i \in 1..n : usedSubstitutions[i].flavorImpact = "significant"})

messageOf(impact) ==
    CASE impact = "minimal" -> " has minimal impact on authenticity"
      [] impact = "moderate" -> " moderately affects the authentic flavor"
      [] impact = "significant" -> " significantly changes the traditional taste"

PairingCodes ==
    {"east_asia", "southeast_asia", "south_asia", "middle_east", "mediterranean",
     "latin_america", "caribbean", "west_africa", "east_africa", "north_africa"}

EtiquetteCodes ==
    {"east_asia", "southeast_asia", "south_asia", "middle_east", "mediterranean",
     "latin_america"}

----------------------------------------------------------------------------
(* Properties                                                               *)

\* C1: when findIngredientSubstitutes returns, the entry of every ingredient
\* that has a rule with at least one candidate contained in some pantry
\* item's lowercased name carries the earliest such candidate in the rule's
\* order, and the call on the pantry in reverse order returns the same.
C1_EarliestAvailableCandidate ==
    returned("findIngredientSubstitutes") =>
        /\ \A i \in 1..Len(ingredients) :
              (hasRule(ingredients[i]) /\ availableOf(ingredients[i]) # {}) =>
                  /\ entryOf(i) <= Len(result.value)
                  /\ \E c \in availableOf(ingredients[i]) :
                        /\ \A d \in availableOf(ingredients[i]) : c <= d
                        /\ result.value[entryOf(i)].substitute
                              = candidatesOf(ingredients[i])[c]
        /\ findIngredientSubstitutes(recipe, Reverse(pantryItems), userRegion) = result

\* a call returned the earliest available candidate although the first pantry
\* item contains only a later candidate of the rule
C1_Witness ==
    /\ returned("findIngredientSubstitutes")
    /\ Len(pantryItems) >= 2
    /\ \E i \in 1..Len(ingredients) :
          /\ hasRule(ingredients[i])
          /\ \E c, d \in availableOf(ingredients[i]) :
                /\ c < d
                /\ \A a \in availableOf(ingredients[i]) : c <= a
                /\ includes(toLowerCase(pantryItems[1].name),
                            candidatesOf(ingredients[i])[d])
                /\ ~includes(toLowerCase(pantryItems[1].name),
                             candidatesOf(ingredients[i])[c])
                /\ result.value[entryOf(i)].substitute = candidatesOf(ingredients[i])[c]

\* C2: when findIngredientSubstitutes returns, every ingredient that has a rule
\* none of whose candidates is contained in a pantry item's lowercased name
\* (the empty pantry included) still has an entry, whose substitute is the
\* rule's first candidate; for "tahini" that is "smooth peanut butter".
C2_FallbackToFirstCandidate ==
    returned("findIngredientSubstitutes") =>
        \A i \in 1..Len(ingredients) :
            (hasRule(ingredients[i]) /\ availableOf(ingredients[i]) = {}) =>
                /\ entryOf(i) <= Len(result.value)
                /\ result.value[entryOf(i)].original = ingredients[i]
                /\ result.value[entryOf(i)].substitute = candidatesOf(ingredients[i])[1]
                /\ (ingredients[i] = "tahini" =>
                        result.value[entryOf(i)].substitute = "smooth peanut butter")

\* "tahini" with a pantry holding no matching item got "smooth peanut butter"
C2_Witness ==
    /\ returned("findIngredientSubstitutes")
    /\ ingredients = <<"tahini">>
    /\ pantryItems = <<[name |-> "Light Soy Sauce"]>>
    /\ Len(result.value) = 1
    /\ result.value[1].substitute = "smooth peanut butter"

\* C3: every call of findIngredientSubstitutes returns a list whose 'original'
\* fields are exactly the input ingredients present in the substitution
\* table, in input order, one per such input position; names not in the table
\* are omitted, and the output is never longer than the input.
C3_OriginalsAreTheRuledInputs ==
    (pc = "done" /\ op = "findIngredientSubstitutes") =>
        /\ result.kind = "return"
        /\ Len(result.value) <= Len(ingredients)
        /\ [k \in 1..Len(result.value) |-> result.value[k].original]
              = SelectSeq(ingredients, hasRule)

\* C4: analyzeAuthenticityScore returns max(0, 100 - 5*minimal - 10*moderate
\* - 20*significant): an integer of 0..100, 65 for the impacts minimal,
\* moderate, significant, and 0 whenever the penalty is 100 or more.
C4_ScoreFormula ==
    returned("analyzeAuthenticityScore") =>
        LET penalty == 5 * countOf("minimal") + 10 * countOf("moderate")
                          + 20 * countOf("significant")
        IN  /\ result.value.score = (IF penalty >= 100 THEN 0 ELSE 100 - penalty)
            /\ result.value.score \in 0..100
            /\ ([k \in 1..Len(usedSubstitutions) |-> usedSubstitutions[k].flavorImpact]
                    = <<"minimal", "moderate", "significant">>
                  => result.value.score = 65)
            /\ (penalty >= 100 => result.value.score = 0)

\* substitutions of a penalty above 100 scored exactly 0
C4_Witness ==
    /\ returned("analyzeAuthenticityScore")
    /\ penaltyOf(Len(usedSubstitutions)) > 100
    /\ result.value.score = 0

\* C5: the feedback of analyzeAuthenticityScore has one string per
\* substitution, the i-th built from the i-th substitution's substitute and
\* original names and the message of its flavor impact, also for the
\* substitutions that follow the one that brought the score to 0.
C5_FeedbackPerSubstitution ==
    returned("analyzeAuthenticityScore") =>
        /\ Len(result.value.feedback) = Len(usedSubstitutions)
        /\ \A i \in 1..Len(usedSubstitutions) :
              result.value.feedback[i]
                = "Using " \o usedSubstitutions[i].substitute \o " instead of "
                    \o usedSubstitutions[i].original
                    \o messageOf(usedSubstitutions[i].flavorImpact)

\* the score was at 0 before the last substitution, which still got its string
C5_Witness ==
    /\ returned("analyzeAuthenticityScore")
    /\ Len(usedSubstitutions) >= 1
    /\ penaltyOf(Len(usedSubstitutions) - 1) >= 100
    /\ Len(result.value.feedback) = Len(usedSubstitutions)
    /\ result.value.feedback[Len(usedSubstitutions)]
          = "Using " \o usedSubstitutions[Len(usedSubstitutions)].substitute
              \o " instead of " \o usedSubstitutions[Len(usedSubstitutions)].original
              \o messageOf(usedSubstitutions[Len(usedSubstitutions)].flavorImpact)

\* C6: no call of the four operations raises an error, whatever the
\* ingredient, pantry and region strings.
C6_NoOperationThrows ==
    pc = "done" => result.kind = "return"

\* C7: findComplementaryDishes matches the region code exactly: each of the
\* ten codes gets its four lists as in the table (for east_asia the main
\* dishes Steamed Fish, Stir-fried Vegetables, Clay Pot Rice), every other
\* string, a known code in another letter case included, four empty lists.
C7_PairingsExactMatch ==
    returned("findComplementaryDishes") =>
        /\ region \in PairingCodes =>
              /\ region \in DOMAIN pairings
              /\ result.value = pairings[region]
        /\ region = "east_asia" =>
              result.value.mainDishes
                  = <<"Steamed Fish", "Stir-fried Vegetables", "Clay Pot Rice">>
        /\ region \notin PairingCodes =>
              result.value = [mainDishes |-> <<>>, sideDishes |-> <<>>,
                              desserts |-> <<>>, beverages |-> <<>>]

\* a known code in another letter case got four empty lists
C7_Witness ==
    /\ returned("findComplementaryDishes")
    /\ region = "East_Asia"
    /\ result.value.mainDishes = <<>>
    /\ result.value.beverages = <<>>

\* C8: getServingEtiquetteGuide returns four non-empty lists for the six
\* etiquette codes and four empty lists for every other string, the four
\* pairing-only codes included; a region with etiquette has pairings.
C8_EtiquetteOnlySixRegions ==
    returned("getServingEtiquetteGuide") =>
        /\ region \in EtiquetteCodes =>
              /\ result.value.presentation # <<>>
              /\ result.value.customs # <<>>
              /\ result.value.taboos # <<>>
              /\ result.value.servingOrder # <<>>
              /\ findComplementaryDishes(recipe, [region |-> region]).mainDishes # <<>>
        /\ region \notin EtiquetteCodes =>
              result.value = [presentation |-> <<>>, customs |-> <<>>,
                              taboos |-> <<>>, servingOrder |-> <<>>]

\* west_africa has pairings and got no etiquette
C8_Witness ==
    /\ returned("getServingEtiquetteGuide")
    /\ region = "west_africa"
    /\ result.value.presentation = <<>>
    /\ result.value.servingOrder = <<>>
    /\ findComplementaryDishes(recipe, [region |-> region]).mainDishes # <<>>

\* C9: for the ingredient "fish sauce" and the pantry whose only item is
\* "Light Soy Sauce", findIngredientSubstitutes returns the substitute
\* "soy sauce with salt", not "worcestershire sauce".
C9_FishSauceLightSoySauce ==
    ( /\ pc = "done"
      /\ op = "findIngredientSubstitutes"
      /\ ingredients = <<"fish sauce">>
      /\ pantryItems = <<[name |-> "Light Soy Sauce"]>> ) =>
        /\ result.kind = "return"
        /\ Len(result.value) = 1
        /\ result.value[1].substitute = "soy sauce with salt"
        /\ result.value[1].substitute # "worcestershire sauce"

\* that call returned "soy sauce with salt"
C9_Witness ==
    /\ returned("findIngredientSubstitutes")
    /\ ingredients = <<"fish sauce">>
    /\ pantryItems = <<[name |-> "Light Soy Sauce"]>>
    /\ result.value[1].original = "fish sauce"
    /\ result.value[1].substitute = "soy sauce with salt"

\* C10: every region entry of the pairing table has exactly 3 names in each
\* of its four categories, every region entry of the etiquette table between
\* 3 and 6 strings in each of its four, and every substitution rule at least
\* one candidate.
C10_TableShapes ==
    /\ \A r \in DOMAIN pairings :
          LET p == getTraditionalPairings(r).value
          IN  /\ Len(p.mainDishes) = 3 /\ Len(p.sideDishes) = 3
              /\ Len(p.desserts) = 3 /\ Len(p.beverages) = 3
    /\ \A r \in DOMAIN etiquette :
          LET e == getRegionalEtiquette(r).value
          IN  /\ Len(e.presentation) \in 3..6 /\ Len(e.customs) \in 3..6
              /\ Len(e.taboos) \in 3..6 /\ Len(e.servingOrder) \in 3..6
    /\ \A k \in DOMAIN getSubstitutionRules :
          Len(getSubstitutionRules[k].substitutes) >= 1
    /\ (returned("findComplementaryDishes") /\ region \in DOMAIN pairings) =>
          /\ Len(result.value.mainDishes) = 3 /\ Len(result.value.sideDishes) = 3
          /\ Len(result.value.desserts) = 3 /\ Len(result.value.beverages) = 3

\* the pairing entry of north_africa was returned with 3 names per category
C10_Witness ==
    /\ returned("findComplementaryDishes")
    /\ region = "north_africa"
    /\ Len(result.value.mainDishes) = 3
    /\ Len(result.value.desserts) = 3

\* C13: the rule of an ingredient is found by its lowercased name, so two
\* spellings that differ only in letter case get the same rule; every entry
\* returned has a substitute among that rule's candidates and that rule's
\* notes and flavor impact, and its 'original' is the caller's spelling.
C13_RuleByLowercasedName ==
    returned("findIngredientSubstitutes") =>
        /\ Len(result.value)
              = Cardinality({i \in 1..Len(ingredients) : hasRule(ingredients[i])})
        /\ \A i \in 1..Len(ingredients) :
              hasRule(ingredients[i]) =>
                  LET e == result.value[entryOf(i)]
                      rule == getSubstitutionRules[toLowerCase(ingredients[i])]
                  IN  /\ e.original = ingredients[i]
                      /\ \E c \in 1..Len(rule.substitutes) :
                            e.substitute = rule.substitutes[c]
                      /\ e.notes = rule.notes
                      /\ e.flavorImpact = rule.flavorImpact
        /\ \A i, j \in 1..Len(ingredients) :
              ( /\ hasRule(ingredients[i])
                /\ toLowerCase(ingredients[i]) = toLowerCase(ingredients[j]) ) =>
                  /\ result.value[entryOf(i)].substitute
                        = result.value[entryOf(j)].substitute
                  /\ result.value[entryOf(i)].notes = result.value[entryOf(j)].notes
                  /\ result.value[entryOf(i)].flavorImpact
                        = result.value[entryOf(j)].flavorImpact
        /\ \A i \in 1..Len(ingredients) :
              ingredients[i] = "Fish Sauce" =>
                  /\ entryOf(i) \in 1..Len(result.value)
                  /\ result.value[entryOf(i)].notes
                        = getSubstitutionRules["fish sauce"].notes

\* "Fish Sauce" and "fish sauce" in one recipe got the same substitute, each
\* under the caller's spelling
C13_Witness ==
    /\ returned("findIngredientSubstitutes")
    /\ ingredients = <<"Fish Sauce", "fish sauce">>
    /\ Len(result.value) = 2
    /\ result.value[1].original = "Fish Sauce"
    /\ result.value[2].original = "fish sauce"
    /\ result.value[1].substitute = result.value[2].substitute
    /\ result.value[1].flavorImpact = "significant"

\* C14: for a fixed recipe the pantry decides only the 'substitute' fields.
\* Every pantry is compared with the empty pantry, so any two pantries agree:
\* both calls end the same way, the outputs have the same length and the same
\* original, notes and flavorImpact at every position, and
\* analyzeAuthenticityScore gives both outputs the same score.
C14_PantryDecidesOnlySubstitute ==
    (pc = "done" /\ op = "findIngredientSubstitutes") =>
        LET other == findIngredientSubstitutes(recipe, <<>>, userRegion)
        IN  /\ other.kind = result.kind
            /\ Len(other.value) = Len(result.value)
            /\ \A k \in 1..Len(result.value) :
                  /\ result.value[k].original = other.value[k].original
                  /\ result.value[k].notes = other.value[k].notes
                  /\ result.value[k].flavorImpact = other.value[k].flavorImpact
            /\ analyzeAuthenticityScore(recipe, result.value).score
                  = analyzeAuthenticityScore(recipe, other.value).score

\* a pantry changed a substitute and left the score below 100 as it was
C14_Witness ==
    /\ returned("findIngredientSubstitutes")
    /\ pantryItems # <<>>
    /\ \E k \in 1..Len(result.value) :
          result.value[k].substitute
              # findIngredientSubstitutes(recipe, <<>>, userRegion).value[k].substitute
    /\ analyzeAuthenticityScore(recipe, result.value).score < 100
    /\ analyzeAuthenticityScore(recipe, result.value).score
          = analyzeAuthenticityScore(recipe,
                findIngredientSubstitutes(recipe, <<>>, userRegion).value).score

\* the sequence with the substitutions at positions i and i+1 exchanged
swapAt(s, i) ==
    [k \in 1..Len(s) |-> IF k = i THEN s[i + 1] ELSE IF k = i + 1 THEN s[i] ELSE s[k]]

\* C15: the score never rises when substitutions are added and does not depend
\* on their order: the score of a sequence is at most the score of each of its
\* prefixes, is 0 when a prefix scores 0, and equals the score of the sequence
\* reversed and of the sequence with two neighbours exchanged (the exchanges
\* of neighbours generate every permutation).
C15_ScoreMonotoneAndOrderFree ==
    returned("analyzeAuthenticityScore") =>
        /\ \A n \in 0..Len(usedSubstitutions) :
              LET before == analyzeAuthenticityScore(recipe,
                                SubSeq(usedSubstitutions, 1, n)).score
              IN  /\ result.value.score <= before
                  /\ before = 0 => result.value.score = 0
        /\ \A i \in 1..(Len(usedSubstitutions) - 1) :
              analyzeAuthenticityScore(recipe, swapAt(usedSubstitutions, i)).score
                  = result.value.score
        /\ analyzeAuthenticityScore(recipe, Reverse(usedSubstitutions)).score
              = result.value.score

\* a sequence whose proper prefix already scored 0 scored 0, as did the
\* sequence in another order
C15_Witness ==
    /\ returned("analyzeAuthenticityScore")
    /\ Len(usedSubstitutions) >= 2
    /\ analyzeAuthenticityScore(recipe,
          SubSeq(usedSubstitutions, 1, Len(usedSubstitutions) - 1)).score = 0
    /\ result.value.score = 0
    /\ Reverse(usedSubstitutions) # usedSubstitutions
    /\ penaltyOf(Len(usedSubstitutions)) > 100

C12_CallersDoNotInterfere ==
    \A w \in DOMAIN callers :
        callers[w].pc = "returned" =>
            LET alone == aloneOf(callers[w].call)
            IN  /\ callers[w].kind = alone.kind
                /\ callers[w].score = alone.score
                /\ callers[w].names = alone.names
                /\ \A i \in 1..Len(alone.names) :
                      heap[callers[w].at[i]].items = alone.lists[alone.names[i]]

\* one caller pushed onto the main dishes it got for east_asia, and the other
\* caller then got east_asia's three main dishes
C12_Witness ==
    /\ "a" \in DOMAIN callers
    /\ callers["a"].pc = "mutated"
    /\ callers["a"].call.op = "findComplementaryDishes"
    /\ heap[callers["a"].at[1]].items
          = <<"Steamed Fish", "Stir-fried Vegetables", "Clay Pot Rice", "mine">>
    /\ callers["b"].pc = "returned"
    /\ callers["b"].call.op = "findComplementaryDishes"
    /\ callers["b"].at[1] > callers["a"].at[1]
    /\ heap[callers["b"].at[1]].items
          = <<"Steamed Fish", "Stir-fried Vegetables", "Clay Pot Rice">>

\* no state update is pending and every effect that was due has run
settled == queue = <<>> /\ effects = "none"

\* C16: once the updates and effects have run the root element has exactly one
\* of the classes light and dark: the theme when it is light or dark, the
\* system colour scheme when it is system; and then a change of the system
\* colour scheme changes the class only when the theme is system.
C16_ThemeClass ==
    /\ [](settled =>
            rootClass = {IF preferences.value.theme = "system"
                         THEN (IF systemDark THEN "dark" ELSE "light")
                         ELSE preferences.value.theme})
    /\ [][(settled /\ systemDark' # systemDark
                   /\ preferences.value.theme # "system") =>
              rootClass' = rootClass]_vars

\* with the theme system in force the system turned dark and the class
\* followed, after a theme of dark had been in force
C16_Witness ==
    /\ settled
    /\ preferences.obj = "created"
    /\ preferences.value.theme = "system"
    /\ storage.present
    /\ listening
    /\ systemDark
    /\ rootClass = {"dark"}
    /\ accentApplied = "#ff0000"

\* C17: once the updates and effects have run, the value stored under
\* 'userPreferences' is the preferences state and the accent colour applied
\* is preferences.accentColor.
C17_StoredEqualsState ==
    settled =>
        /\ storage.present
        /\ storage.value = preferences.value
        /\ accentApplied = preferences.value.accentColor

=============================================================================
